---- MODULE Spec2Model ----
(***************************************************************************)
(* INA226 energy service: the register-level driver (writeRegister,        *)
(* readRegister, ReadBusVoltage, ReadCurrent, ReadPower, ReadSensorData,   *)
(* NewINA226) and the polling loop of run.  The repository holds two       *)
(* versions of run: src/src/main.go ("main") and src/unnamed/part_000      *)
(* ("part0"); the driver code is the same in both.                         *)
(*                                                                         *)
(* Scales: updates-per-second is held in tenths (25 is 2.5 per second);    *)
(* durations are held in milliseconds; voltage is held in units of         *)
(* 0.01 mV, current in mA, power in mW.                                    *)
(***************************************************************************)
EXTENDS Integers, Sequences, FiniteSets, TLC

VARIABLES
    variant,          \* which run is executing: "main" or "part0"
    pc,               \* position of run
    cfgNil,           \* the configuration pointer handed to run is nil
    streamNil,        \* service.GetWriteStream("energy") gives nil
    cfg,              \* the external configuration source (may change at any time)
    updateFrequency,  \* run's local updateFrequency (tenths)
    fetchErr,         \* the error of the last GetFloat
    sleep,            \* the last time.Sleep of the loop
    bus,              \* the bus handle: "unopened", "nil", "open", "closed"
    ina226,           \* run's local ina226: "unset", "nil", "dev"
    data,             \* run's local data (the reading, or Nil)
    err,              \* run's local err after ReadSensorData / NewINA226
    txLog,            \* every bus transaction issued so far, in order
    callTxs,          \* the transactions of the last driver call
    tick,             \* number of loop iterations started
    cfgAtTick,        \* the configuration as it was when the current tick started
    emitted,          \* readings written to the log by the report step
    published,        \* messages handed to the 'energy' write stream
    errLog,           \* error-level log lines
    retErr,           \* the error run returned
    panicAt,          \* where run panicked ("" when it did not)
    call              \* the last driver call made by the register harness

vars == << variant, pc, cfgNil, streamNil, cfg, updateFrequency, fetchErr, sleep,
           bus, ina226, data, err, txLog, callTxs, tick, cfgAtTick, emitted,
           published, errLog, retErr, panicAt, call >>

---------------------------------------------------------------------------
(* Bounds of the model *)

MaxTicks == 2

---------------------------------------------------------------------------
(* Program constants: src/src/main.go:18-37 *)

ina226Address  == 64
configReg      == 0
shuntVoltReg   == 1
busVoltReg     == 2
powerReg       == 3
currentReg     == 4
calibrationReg == 5
configValue    == 16679
calibrationValue == 2560

\* conversion factors in the model's units
busVoltageConversion == 125    \* 1.25 mV/bit, in units of 0.01 mV
currentLSB           == 1      \* 1 mA/bit
powerLSB             == 25     \* 25 mW/bit

---------------------------------------------------------------------------
(* Errors *)

NoErr == [kind |-> "nil", msg |-> "", tx |-> 0]

\* the error a failing bus transaction returns; tx identifies the transaction
BusIOError(i) == [kind |-> "BusIOError", msg |-> "", tx |-> i]

ConfigError == [kind |-> "ConfigError", msg |-> "", tx |-> 0]

\* fmt.Errorf(msg + ": %v", e)
Errorf(msg, e) == [e EXCEPT !.msg = msg]

\* fmt.Errorf(msg) with no cause
ErrorNew(msg) == [kind |-> "error", msg |-> msg, tx |-> 0]

Nil == [nil |-> TRUE, SupplyVoltage |-> 0, CurrentAmps |-> 0, PowerWatts |-> 0]

---------------------------------------------------------------------------
(* The bus (periph.io i2c.Dev.Tx), answered by the environment.            *)
(* A response is what the bus answers to one transaction: an error or nil, *)
(* and the bytes it would deliver to a read buffer.                        *)

\* register contents the device may deliver while run polls it
RawPairs == { <<1, 44>>, <<255, 255>> }

OkResp(p)   == [err |-> NoErr, data |-> p]
FailResp(i) == [err |-> BusIOError(i), data |-> <<0, 0>>]

\* the answers of the bus to the next n transactions of a call
ScriptSet(n) ==
    { [i \in 1..n |-> IF i \in F THEN FailResp(i) ELSE OkResp(d[i])] :
          F \in SUBSET (1..n), d \in [1..n -> RawPairs] }

InitScripts   == ScriptSet(2)
SampleScripts == ScriptSet(6)

Drop(rs, n) == SubSeq(rs, n + 1, Len(rs))

\* ina.dev.Tx(w, r): one transaction to the device address; w are the bytes
\* written, rlen the length of the read buffer (0 for a nil buffer)
Tx(w, rlen, resp) ==
    [ addr |-> ina226Address,
      w    |-> w,
      rlen |-> rlen,
      err  |-> resp.err,
      data |-> IF resp.err = NoErr /\ rlen > 0
               THEN SubSeq(resp.data, 1, rlen) ELSE <<>> ]

---------------------------------------------------------------------------
(* The driver: src/src/main.go:43-149.  Each operator takes rs, the bus's  *)
(* answers to the transactions the call will issue, and gives the call's   *)
(* results together with txs, the transactions it issued.                  *)

\* the payload with the low byte first
WritePayload_LittleEndian(reg, value) ==
    << reg % 256, value % 256, (value \div 256) % 256 >>

\* []byte{reg, byte(value >> 8), byte(value & 0xFF)}
WritePayload(reg, value) ==
    << reg % 256, (value \div 256) % 256, value % 256 >>

writeRegister(reg, value, rs) ==
    LET t == Tx(WritePayload(reg, value), 0, rs[1])
    IN  [ err |-> t.err, txs |-> <<t>> ]

\* uint16(data[0])<<8 | uint16(data[1])
BigEndian16(b) == ((b[1] * 256) % 65536) + b[2]

\* the address byte and the 2-byte read in one combined transaction
readRegister_Combined(reg, rs) ==
    LET t == Tx(<<reg % 256>>, 2, rs[1])
    IN  IF t.err # NoErr
        THEN [ val |-> 0, err |-> t.err, txs |-> <<t>> ]
        ELSE [ val |-> BigEndian16(t.data), err |-> NoErr, txs |-> <<t>> ]

\* the read issued whatever the address write gave
readRegister_IgnoresSelectError(reg, rs) ==
    LET t1 == Tx(<<reg % 256>>, 0, rs[1])
        t2 == Tx(<<>>, 2, rs[2])
    IN  IF t2.err # NoErr
        THEN [ val |-> 0, err |-> t2.err, txs |-> <<t1, t2>> ]
        ELSE [ val |-> BigEndian16(t2.data), err |-> NoErr, txs |-> <<t1, t2>> ]

readRegister(reg, rs) ==
    LET t1 == Tx(<<reg % 256>>, 0, rs[1])
    IN  IF t1.err # NoErr
        THEN [ val |-> 0, err |-> t1.err, txs |-> <<t1>> ]
        ELSE LET t2 == Tx(<<>>, 2, rs[2])
             IN  IF t2.err # NoErr
                 THEN [ val |-> 0, err |-> t2.err, txs |-> <<t1, t2>> ]
                 ELSE [ val |-> BigEndian16(t2.data), err |-> NoErr,
                        txs |-> <<t1, t2>> ]

ReadBusVoltage(rs) ==
    LET r == readRegister(busVoltReg, rs)
    IN  IF r.err # NoErr
        THEN [ val |-> 0, err |-> r.err, txs |-> r.txs ]
        ELSE [ val |-> r.val * busVoltageConversion, err |-> NoErr, txs |-> r.txs ]

\* the raw value taken as unsigned, with no sign reinterpretation
Int16_Unsigned(raw) == raw

\* int16(raw)
Int16(raw) == IF raw >= 32768 THEN raw - 65536 ELSE raw

ReadCurrent(rs) ==
    LET r == readRegister(currentReg, rs)
    IN  IF r.err # NoErr
        THEN [ val |-> 0, err |-> r.err, txs |-> r.txs ]
        ELSE [ val |-> Int16(r.val) * currentLSB, err |-> NoErr, txs |-> r.txs ]

\* the power register reinterpreted as signed, like the current register
ReadPower_Signed(rs) ==
    LET r == readRegister(powerReg, rs)
    IN  IF r.err # NoErr
        THEN [ val |-> 0, err |-> r.err, txs |-> r.txs ]
        ELSE [ val |-> Int16(r.val) * powerLSB, err |-> NoErr, txs |-> r.txs ]

ReadPower(rs) ==
    LET r == readRegister(powerReg, rs)
    IN  IF r.err # NoErr
        THEN [ val |-> 0, err |-> r.err, txs |-> r.txs ]
        ELSE [ val |-> r.val * powerLSB, err |-> NoErr, txs |-> r.txs ]

CurrentSensorOutput(voltage, current, power) ==
    [ nil |-> FALSE, SupplyVoltage |-> voltage, CurrentAmps |-> current,
      PowerWatts |-> power ]

\* power read before current
ReadSensorData_PowerBeforeCurrent(rs) ==
    LET v == ReadBusVoltage(rs)
    IN  IF v.err # NoErr
        THEN [ data |-> Nil, err |-> Errorf("failed to read bus voltage", v.err),
               txs |-> v.txs ]
        ELSE
    LET p == ReadPower(Drop(rs, Len(v.txs)))
    IN  IF p.err # NoErr
        THEN [ data |-> Nil, err |-> Errorf("failed to read power", p.err),
               txs |-> v.txs \o p.txs ]
        ELSE
    LET c == ReadCurrent(Drop(rs, Len(v.txs) + Len(p.txs)))
    IN  IF c.err # NoErr
        THEN [ data |-> Nil, err |-> Errorf("failed to read current", c.err),
               txs |-> v.txs \o p.txs \o c.txs ]
        ELSE [ data |-> CurrentSensorOutput(v.val, c.val, p.val), err |-> NoErr,
               txs |-> v.txs \o p.txs \o c.txs ]

\* a failed power read is let through as a reading with no power
ReadSensorData_PartialOnPowerError(rs) ==
    LET v == ReadBusVoltage(rs)
    IN  IF v.err # NoErr
        THEN [ data |-> Nil, err |-> Errorf("failed to read bus voltage", v.err),
               txs |-> v.txs ]
        ELSE
    LET c == ReadCurrent(Drop(rs, Len(v.txs)))
    IN  IF c.err # NoErr
        THEN [ data |-> Nil, err |-> Errorf("failed to read current", c.err),
               txs |-> v.txs \o c.txs ]
        ELSE
    LET p == ReadPower(Drop(rs, Len(v.txs) + Len(c.txs)))
    IN  [ data |-> CurrentSensorOutput(v.val, c.val, p.val), err |-> NoErr,
          txs |-> v.txs \o c.txs \o p.txs ]

ReadSensorData(rs) ==
    LET v == ReadBusVoltage(rs)
    IN  IF v.err # NoErr
        THEN [ data |-> Nil, err |-> Errorf("failed to read bus voltage", v.err),
               txs |-> v.txs ]
        ELSE
    LET c == ReadCurrent(Drop(rs, Len(v.txs)))
    IN  IF c.err # NoErr
        THEN [ data |-> Nil, err |-> Errorf("failed to read current", c.err),
               txs |-> v.txs \o c.txs ]
        ELSE
    LET p == ReadPower(Drop(rs, Len(v.txs) + Len(c.txs)))
    IN  IF p.err # NoErr
        THEN [ data |-> Nil, err |-> Errorf("failed to read power", p.err),
               txs |-> v.txs \o c.txs \o p.txs ]
        ELSE [ data |-> CurrentSensorOutput(v.val, c.val, p.val), err |-> NoErr,
               txs |-> v.txs \o c.txs \o p.txs ]

\* the calibration write issued whatever the configuration write gave
initialize_IgnoresConfigError(rs) ==
    LET w1 == writeRegister(configReg, configValue, rs)
        w2 == writeRegister(calibrationReg, calibrationValue, Drop(rs, 1))
    IN  [ err |-> w2.err, txs |-> w1.txs \o w2.txs ]

initialize(rs) ==
    LET w1 == writeRegister(configReg, configValue, rs)
    IN  IF w1.err # NoErr
        THEN [ err |-> w1.err, txs |-> w1.txs ]
        ELSE LET w2 == writeRegister(calibrationReg, calibrationValue, Drop(rs, 1))
             IN  [ err |-> w2.err, txs |-> w1.txs \o w2.txs ]

NewINA226(rs) ==
    LET i == initialize(rs)
    IN  IF i.err # NoErr
        THEN [ ina |-> "nil", err |-> Errorf("failed to initialize INA226", i.err),
               txs |-> i.txs ]
        ELSE [ ina |-> "dev", err |-> NoErr, txs |-> i.txs ]

---------------------------------------------------------------------------
(* The configuration source (roverlib ServiceConfiguration), external.     *)

\* updates-per-second values the configuration may hold, in tenths
FreqVals == { -10, 0, 5, 25 }

\* numbers GetFloat may hand back beside an error
ErrVals == { 0, 25 }

\* readable: GetFloat succeeds and gives val.  Not readable: GetFloat gives
\* an error, and val is the number it hands back beside the error.
CfgStates ==
    [ readable : { TRUE }, val : FreqVals ] \cup [ readable : { FALSE }, val : ErrVals ]

\* configuration.GetFloat("updates-per-second")
GetFloat(c) ==
    [ val |-> c.val, err |-> IF c.readable THEN NoErr ELSE ConfigError ]

---------------------------------------------------------------------------
(* run: src/src/main.go:151-224 ("main"), src/unnamed/part_000:149-200     *)
(* ("part0")                                                               *)

Variants == { "main", "part0" }

\* what NewINA226 and ReadSensorData can give, over all answers of the bus
InitOutcomes   == { NewINA226(rs) : rs \in InitScripts }
SampleOutcomes == { ReadSensorData(rs) : rs \in SampleScripts }

NoSleep == [ freq |-> 0, ms |-> 0, conv |-> "none" ]

\* integer quotient truncated toward zero, as Go's / and float-to-int do
TruncDiv(a, b) ==
    IF (a >= 0) = (b > 0) THEN (IF a >= 0 THEN a ELSE -a) \div (IF b > 0 THEN b ELSE -b)
    ELSE -((IF a >= 0 THEN a ELSE -a) \div (IF b > 0 THEN b ELSE -b))

\* main.go:190-191  sleepSeconds := 1.0 / updateFrequency;
\* time.Duration(sleepSeconds * float64(time.Second)).  The float division
\* by 0 gives +Inf, whose conversion to int64 is implementation-dependent:
\* the smallest or the largest int64.
SleepArgsMain(f) ==
    IF f = 0
    THEN { [ freq |-> f, ms |-> 0, conv |-> c ] : c \in { "minInt64", "maxInt64" } }
    ELSE { [ freq |-> f, ms |-> TruncDiv(10000, f), conv |-> "exact" ] }

\* part_000:181  (1.0 * time.Second) / time.Duration(updateFrequency):
\* the frequency is truncated to an integer, and the division is an integer
\* division, which panics when the divisor is 0 (the empty set here).
SleepArgsPart0(f) ==
    LET d == TruncDiv(f, 10)
    IN  IF d = 0 THEN {}
        ELSE { [ freq |-> f, ms |-> TruncDiv(1000, d), conv |-> "exact" ] }

SleepArgs(v, f) == IF v = "main" THEN SleepArgsMain(f) ELSE SleepArgsPart0(f)

\* main.go:187 `if err != nil`; part_000:157 and :185 `if err == nil`
FetchAborts(v, e) == IF v = "main" THEN e # NoErr ELSE e = NoErr

\* main.go:188 wraps the cause; part_000:158,186 do not
FetchError(v, e) ==
    IF v = "main" THEN Errorf("unable to read configuration", e)
    ELSE ErrorNew("unable to read configuration")

\* the first statement of the for body
LoopTop(v) == IF v = "main" THEN "fetch" ELSE "sleep"

Active == pc \in { "start", "open", "construct", "fetch", "sleep", "sample", "report" }

\* `return e`: the deferred bus.Close() (main.go:176) runs if it was registered
Return(e) ==
    /\ pc' = "returned"
    /\ retErr' = e
    /\ bus' = IF bus = "open" THEN "closed" ELSE bus
    /\ panicAt' = panicAt

\* a run-time panic at `where`: deferred calls run, then the process dies
Panic(where) ==
    /\ pc' = "panicked"
    /\ panicAt' = where
    /\ bus' = IF bus = "open" THEN "closed" ELSE bus
    /\ retErr' = retErr

Goto(l) ==
    /\ pc' = l
    /\ UNCHANGED << retErr, panicAt, bus >>

Init ==
    /\ variant \in Variants
    /\ pc = "start"
    /\ cfgNil \in BOOLEAN
    /\ streamNil \in BOOLEAN
    /\ cfg \in CfgStates
    /\ updateFrequency = 0
    /\ fetchErr = NoErr
    /\ sleep = NoSleep
    /\ bus = "unopened"
    /\ ina226 = "unset"
    /\ data = Nil
    /\ err = NoErr
    /\ txLog = <<>>
    /\ callTxs = <<>>
    /\ tick = 0
    /\ cfgAtTick = cfg
    /\ emitted = <<>>
    /\ published = <<>>
    /\ errLog = <<>>
    /\ retErr = NoErr
    /\ panicAt = ""
    /\ call = [ op |-> "none", reg |-> 0, value |-> 0, val |-> 0, err |-> NoErr ]

\* main.go:152-164, part_000:150-159
RunStart ==
    /\ pc = "start"
    /\ IF cfgNil
       THEN /\ Return(ErrorNew("configuration cannot be accessed"))
            /\ UNCHANGED << updateFrequency, fetchErr >>
       ELSE IF variant = "main"
       THEN /\ IF streamNil
               THEN Return(ErrorNew("failed to create write stream 'energy'"))
               ELSE Goto("open")
            /\ UNCHANGED << updateFrequency, fetchErr >>
       ELSE LET g == GetFloat(cfg)
            IN  /\ updateFrequency' = g.val
                /\ fetchErr' = g.err
                /\ IF FetchAborts(variant, g.err)
                   THEN Return(FetchError(variant, g.err))
                   ELSE Goto("open")
    /\ UNCHANGED << variant, cfgNil, streamNil, cfg, sleep, ina226, data, err,
                    txLog, callTxs, tick, cfgAtTick, emitted, published, errLog, call >>

\* main.go:166-176: host.Init and i2creg.Open only log their errors; with a
\* nil bus the statement `defer bus.Close()` panics (method of a nil interface)
OpenBus ==
    /\ pc = "open"
    /\ \E hostOk \in BOOLEAN, openOk \in BOOLEAN :
          /\ errLog' = errLog
                 \o (IF hostOk THEN <<>> ELSE << "failed to initialize periph" >>)
                 \o (IF openOk THEN <<>> ELSE << "failed to open I2C bus" >>)
          /\ IF openOk
             THEN /\ pc' = "construct"
                  /\ bus' = "open"
                  /\ UNCHANGED << retErr, panicAt >>
             ELSE /\ pc' = "panicked"
                  /\ panicAt' = "defer"
                  /\ bus' = "nil"
                  /\ UNCHANGED retErr
    /\ UNCHANGED << variant, cfgNil, streamNil, cfg, updateFrequency, fetchErr,
                    sleep, ina226, data, err, txLog, callTxs, tick, cfgAtTick, emitted,
                    published, call >>

\* main.go:178-182: the error of NewINA226 is logged and run goes on
Construct ==
    /\ pc = "construct"
    /\ \E r \in InitOutcomes :
          /\ ina226' = r.ina
          /\ err' = r.err
          /\ txLog' = txLog \o r.txs
          /\ callTxs' = r.txs
          /\ errLog' = IF r.err # NoErr THEN Append(errLog, r.err.msg) ELSE errLog
    /\ Goto(LoopTop(variant))
    /\ UNCHANGED << variant, cfgNil, streamNil, cfg, updateFrequency, fetchErr,
                    sleep, data, tick, cfgAtTick, emitted, published, call >>

\* main.go:186-189 (first statement of a tick), part_000:184-187 (after the sleep)
Fetch ==
    /\ pc = "fetch"
    /\ variant = "main" => tick < MaxTicks
    /\ tick' = IF variant = "main" THEN tick + 1 ELSE tick
    /\ cfgAtTick' = IF variant = "main" THEN cfg ELSE cfgAtTick
    /\ LET g == GetFloat(cfg)
       IN  /\ updateFrequency' = g.val
           /\ fetchErr' = g.err
           /\ IF FetchAborts(variant, g.err)
              THEN Return(FetchError(variant, g.err))
              ELSE Goto(IF variant = "main" THEN "sleep" ELSE "sample")
    /\ UNCHANGED << variant, cfgNil, streamNil, cfg, sleep, ina226, data, err,
                    txLog, callTxs, emitted, published, errLog, call >>

\* main.go:190-191, part_000:181 (first statement of a tick)
Sleep ==
    /\ pc = "sleep"
    /\ variant = "part0" => tick < MaxTicks
    /\ tick' = IF variant = "part0" THEN tick + 1 ELSE tick
    /\ cfgAtTick' = IF variant = "part0" THEN cfg ELSE cfgAtTick
    /\ IF SleepArgs(variant, updateFrequency) = {}
       THEN /\ Panic("sleep")
            /\ UNCHANGED sleep
       ELSE /\ sleep' \in SleepArgs(variant, updateFrequency)
            /\ Goto(IF variant = "main" THEN "sample" ELSE "fetch")
    /\ UNCHANGED << variant, cfgNil, streamNil, cfg, updateFrequency, fetchErr,
                    ina226, data, err, txLog, callTxs, emitted, published, errLog,
                    call >>

\* main.go:195-198: with a nil ina226 the call panics at ina.dev, before any
\* transaction; an error is logged and run goes on to the report
Sample ==
    /\ pc = "sample"
    /\ IF ina226 # "dev"
       THEN /\ Panic("sample")
            /\ UNCHANGED << data, err, txLog, callTxs, errLog >>
       ELSE /\ \E r \in SampleOutcomes :
                  /\ data' = r.data
                  /\ err' = r.err
                  /\ txLog' = txLog \o r.txs
                  /\ callTxs' = r.txs
                  /\ errLog' = IF r.err # NoErr
                               THEN Append(errLog, "Failed to read sensor data")
                               ELSE errLog
            /\ Goto("report")
    /\ UNCHANGED << variant, cfgNil, streamNil, cfg, updateFrequency, fetchErr,
                    sleep, ina226, tick, cfgAtTick, emitted, published, call >>

\* main.go:214-222, part_000:194-198: the fields of data are read for the log
\* line whatever err was; reading them through a nil data panics.  Nothing
\* is written to the write stream (main.go:219 is commented out).
Report ==
    /\ pc = "report"
    /\ IF data.nil
       THEN /\ Panic("report")
            /\ UNCHANGED emitted
       ELSE /\ emitted' = Append(emitted, [ tick |-> tick, reading |-> data ])
            /\ Goto(LoopTop(variant))
    /\ UNCHANGED << variant, cfgNil, streamNil, cfg, updateFrequency, fetchErr,
                    sleep, ina226, data, err, txLog, callTxs, tick, cfgAtTick, published,
                    errLog, call >>

\* the environment edits the configuration while run is executing
ConfigChange ==
    /\ Active
    /\ cfg' \in CfgStates \ { cfg }
    /\ UNCHANGED << variant, pc, cfgNil, streamNil, updateFrequency, fetchErr,
                    sleep, bus, ina226, data, err, txLog, callTxs, tick, cfgAtTick, emitted,
                    published, errLog, retErr, panicAt, call >>

Next ==
    \/ RunStart
    \/ OpenBus
    \/ Construct
    \/ Fetch
    \/ Sleep
    \/ Sample
    \/ Report
    \/ ConfigChange

Spec == Init /\ [][Next]_vars

---------------------------------------------------------------------------
(* Register harness: one call of writeRegister or readRegister on a driver *)
(* whose bus is open, with the arguments and the bus's answers drawn from  *)
(* the whole width of the types on one side and from samples on the other. *)

Uint8  == 0..255
Uint16 == 0..65535

RegSamples  == { configReg, calibrationReg, 255 }
ValSamples  == { 0, 1, 255, 256, configValue, calibrationValue, 32767, 32768, 65535 }
ByteSamples == { 0, 1, 44, 127, 128, 255 }

WriteInputs == (Uint8 \X ValSamples) \cup (RegSamples \X Uint16)

ReadInputs ==
    (Uint8 \X ByteSamples \X ByteSamples) \cup ({ busVoltReg, 255 } \X Uint8 \X Uint8)

\* the bus's answers to two transactions that deliver the bytes b0, b1
Answers(F, b0, b1) ==
    [ i \in 1..2 |-> IF i \in F THEN FailResp(i) ELSE OkResp(<< b0, b1 >>) ]

InitDriver ==
    /\ variant = "main"
    /\ pc = "harness"
    /\ cfgNil = FALSE
    /\ streamNil = FALSE
    /\ cfg = [ readable |-> TRUE, val |-> 25 ]
    /\ updateFrequency = 0
    /\ fetchErr = NoErr
    /\ sleep = NoSleep
    /\ bus = "open"
    /\ ina226 = "dev"
    /\ data = Nil
    /\ err = NoErr
    /\ txLog = <<>>
    /\ callTxs = <<>>
    /\ tick = 0
    /\ cfgAtTick = cfg
    /\ emitted = <<>>
    /\ published = <<>>
    /\ errLog = <<>>
    /\ retErr = NoErr
    /\ panicAt = ""
    /\ call = [ op |-> "none", reg |-> 0, value |-> 0, val |-> 0, err |-> NoErr ]

CallWriteRegister ==
    /\ pc = "harness"
    /\ \E in \in WriteInputs, F \in SUBSET { 1 } :
          LET r == writeRegister(in[1], in[2], Answers(F, 0, 0))
          IN  /\ call' = [ op |-> "writeRegister", reg |-> in[1], value |-> in[2],
                           val |-> 0, err |-> r.err ]
              /\ callTxs' = r.txs
              /\ txLog' = txLog \o r.txs
    /\ pc' = "called"
    /\ UNCHANGED << variant, cfgNil, streamNil, cfg, updateFrequency, fetchErr,
                    sleep, bus, ina226, data, err, tick, cfgAtTick, emitted,
                    published, errLog, retErr, panicAt >>

CallReadRegister ==
    /\ pc = "harness"
    /\ \E in \in ReadInputs, F \in SUBSET { 1, 2 } :
          LET r == readRegister(in[1], Answers(F, in[2], in[3]))
          IN  /\ call' = [ op |-> "readRegister", reg |-> in[1], value |-> 0,
                           val |-> r.val, err |-> r.err ]
              /\ callTxs' = r.txs
              /\ txLog' = txLog \o r.txs
    /\ pc' = "called"
    /\ UNCHANGED << variant, cfgNil, streamNil, cfg, updateFrequency, fetchErr,
                    sleep, bus, ina226, data, err, tick, cfgAtTick, emitted,
                    published, errLog, retErr, panicAt >>

NextDriver ==
    \/ CallWriteRegister
    \/ CallReadRegister

SpecDriver == InitDriver /\ [][NextDriver]_vars

---------------------------------------------------------------------------
(* Conversion harness: one call of ReadBusVoltage, ReadCurrent or ReadPower *)
(* on a driver whose bus is open, the register delivering every 16-bit     *)
(* value, each transaction succeeding or failing.                          *)

CallReadBusVoltage ==
    /\ pc = "harness"
    /\ \E b0 \in Uint8, b1 \in Uint8, F \in SUBSET { 1, 2 } :
          LET r == ReadBusVoltage(Answers(F, b0, b1))
          IN  /\ call' = [ op |-> "ReadBusVoltage", reg |-> busVoltReg, value |-> 0,
                           val |-> r.val, err |-> r.err ]
              /\ callTxs' = r.txs
              /\ txLog' = txLog \o r.txs
    /\ pc' = "called"
    /\ UNCHANGED << variant, cfgNil, streamNil, cfg, updateFrequency, fetchErr,
                    sleep, bus, ina226, data, err, tick, cfgAtTick, emitted,
                    published, errLog, retErr, panicAt >>

CallReadCurrent ==
    /\ pc = "harness"
    /\ \E b0 \in Uint8, b1 \in Uint8, F \in SUBSET { 1, 2 } :
          LET r == ReadCurrent(Answers(F, b0, b1))
          IN  /\ call' = [ op |-> "ReadCurrent", reg |-> currentReg, value |-> 0,
                           val |-> r.val, err |-> r.err ]
              /\ callTxs' = r.txs
              /\ txLog' = txLog \o r.txs
    /\ pc' = "called"
    /\ UNCHANGED << variant, cfgNil, streamNil, cfg, updateFrequency, fetchErr,
                    sleep, bus, ina226, data, err, tick, cfgAtTick, emitted,
                    published, errLog, retErr, panicAt >>

CallReadPower ==
    /\ pc = "harness"
    /\ \E b0 \in Uint8, b1 \in Uint8, F \in SUBSET { 1, 2 } :
          LET r == ReadPower(Answers(F, b0, b1))
          IN  /\ call' = [ op |-> "ReadPower", reg |-> powerReg, value |-> 0,
                           val |-> r.val, err |-> r.err ]
              /\ callTxs' = r.txs
              /\ txLog' = txLog \o r.txs
    /\ pc' = "called"
    /\ UNCHANGED << variant, cfgNil, streamNil, cfg, updateFrequency, fetchErr,
                    sleep, bus, ina226, data, err, tick, cfgAtTick, emitted,
                    published, errLog, retErr, panicAt >>

NextConvert ==
    \/ CallReadBusVoltage
    \/ CallReadCurrent
    \/ CallReadPower

SpecConvert == InitDriver /\ [][NextConvert]_vars

---------------------------------------------------------------------------
(* Sleep harness: the sleep-duration computation of each version of run,   *)
(* applied once to an updates-per-second value drawn from -1.0 up to       *)
(* MaxFreqTenths tenths.                                                   *)

MaxFreqTenths == 60

FreqInputs == (-10)..MaxFreqTenths

InitSleep ==
    /\ variant \in Variants
    /\ pc = "harness"
    /\ cfgNil = FALSE
    /\ streamNil = FALSE
    /\ updateFrequency \in FreqInputs
    /\ cfg = [ readable |-> TRUE, val |-> 25 ]
    /\ fetchErr = NoErr
    /\ sleep = NoSleep
    /\ bus = "open"
    /\ ina226 = "dev"
    /\ data = Nil
    /\ err = NoErr
    /\ txLog = <<>>
    /\ callTxs = <<>>
    /\ tick = 0
    /\ cfgAtTick = cfg
    /\ emitted = <<>>
    /\ published = <<>>
    /\ errLog = <<>>
    /\ retErr = NoErr
    /\ panicAt = ""
    /\ call = [ op |-> "none", reg |-> 0, value |-> 0, val |-> 0, err |-> NoErr ]

\* main.go:190-191, part_000:181
ComputeSleep ==
    /\ pc = "harness"
    /\ IF SleepArgs(variant, updateFrequency) = {}
       THEN /\ pc' = "panicked"
            /\ panicAt' = "sleep"
            /\ UNCHANGED sleep
       ELSE /\ sleep' \in SleepArgs(variant, updateFrequency)
            /\ pc' = "called"
            /\ UNCHANGED panicAt
    /\ UNCHANGED << variant, cfgNil, streamNil, cfg, updateFrequency, fetchErr,
                    bus, ina226, data, err, txLog, callTxs, tick, cfgAtTick,
                    emitted, published, errLog, retErr, call >>

SpecSleep == InitSleep /\ [][ComputeSleep]_vars

---------------------------------------------------------------------------
(* Claims *)

LoopPcs == { "fetch", "sleep", "sample", "report" }

\* the last call was ReadSensorData and it has come back
Sampled == pc = "report" \/ (pc = "panicked" /\ panicAt = "report")

\* the step of run that leaves position p
Leaves(p) == pc = p /\ pc' # p

\* C1: a tick whose ReadSensorData failed does not end the loop: run neither
\* returns nor crashes because of that failure (stated for main.go's run).
C1_FailedSampleKeepsLooping ==
    (variant = "main" /\ updateFrequency > 0 /\ Sampled /\ err # NoErr)
      => pc \notin { "panicked", "returned" }

\* C2: once NewINA226 has failed, run is never inside the polling loop and
\* never calls ReadSensorData on the driver it did not get.
C2_NoLoopAfterFailedInit ==
    ina226 = "nil" => (pc \notin LoopPcs /\ panicAt # "sample")

\* C3: a fetch of updates-per-second makes run return a configuration error
\* exactly when the fetch failed (a failed fetch aborts, so no sleep and no
\* sample follow it; a successful fetch never makes run return).
C3_FetchFailureAborts ==
    [][ ( /\ Leaves("fetch") \/ (Leaves("start") /\ variant = "part0" /\ ~cfgNil)
          /\ cfg.readable => cfg.val > 0 )
          => ( (fetchErr' # NoErr) <=>
               (pc' = "returned" /\ retErr'.msg = "unable to read configuration") ) ]_vars

\* C4: in a tick whose ReadSensorData failed, the report step does not read
\* the fields of a reading and emits nothing: the tick just ends (stated for
\* main.go's run).
C4_NoReadingOnFailure ==
    [][ (variant = "main" /\ Leaves("report") /\ err # NoErr)
          => (pc' = LoopTop(variant) /\ emitted' = emitted /\ published' = published) ]_vars

\* C5: ReadSensorData is all-or-nothing.  When it comes back it has either
\* issued six successful transactions and given a reading whose three fields
\* are computed from the bytes read in this call, with no error; or it has
\* given a nil reading and an error that is the error of the one failed
\* transaction, which is the last one it issued, and that names the quantity
\* being read (bus voltage, then current, then power).
QuantityOf(n) ==
    IF n <= 2 THEN "failed to read bus voltage"
    ELSE IF n <= 4 THEN "failed to read current"
    ELSE "failed to read power"

Raw16(t) == t.data[1] * 256 + t.data[2]

C5_AllOrNothing ==
    Sampled =>
      LET n == Len(callTxs)
      IN  \/ /\ err = NoErr
             /\ ~data.nil
             /\ n = 6
             /\ \A i \in 1..n : callTxs[i].err = NoErr
             /\ data.SupplyVoltage = Raw16(callTxs[2]) * 125
             /\ data.CurrentAmps =
                   (IF Raw16(callTxs[4]) >= 32768 THEN Raw16(callTxs[4]) - 65536
                    ELSE Raw16(callTxs[4]))
             /\ data.PowerWatts = Raw16(callTxs[6]) * 25
          \/ /\ err # NoErr
             /\ data = Nil
             /\ n \in 1..6
             /\ \A i \in 1..(n - 1) : callTxs[i].err = NoErr
             /\ callTxs[n].err # NoErr
             /\ err.kind = "BusIOError"
             /\ err.tx = callTxs[n].err.tx
             /\ err.msg = QuantityOf(n)

C5_Witness ==
    /\ pc = "report"
    /\ err.msg = "failed to read current"
    /\ data = Nil
    /\ Len(callTxs) = 4
    /\ callTxs[4].err = BusIOError(4)

\* C6: the report step of a tick whose ReadSensorData succeeded hands the
\* reading to the 'energy' write stream exactly once (stated for main.go's run).
C6_PublishedOnce ==
    [][ (variant = "main" /\ Leaves("report") /\ err = NoErr)
          => published' = Append(published, data) ]_vars

\* C7: the sleep of a tick lasts 1/f for the value f > 0 the configuration
\* held when the tick started, whatever the configuration was changed to
\* during the tick before.
C7_SleepUsesTickValue ==
    [][ (Leaves("sleep") /\ cfgAtTick'.readable /\ cfgAtTick'.val > 0)
          => ( /\ pc' # "panicked"
               /\ sleep'.conv = "exact"
               /\ sleep'.freq = cfgAtTick'.val
               /\ sleep'.ms * cfgAtTick'.val <= 10000
               /\ (sleep'.ms + 1) * cfgAtTick'.val > 10000 ) ]_vars

\* C8: every sleep of the loop was computed from an updates-per-second
\* value greater than 0 (stated for main.go's run).
C8_PositiveFrequency ==
    (variant = "main" /\ sleep # NoSleep) => sleep.freq > 0

\* C9: a readRegister(r) whose transactions all succeed issues exactly two:
\* a write of the one byte [r] with no read buffer, then a read of 2 bytes
\* with nothing written; its value is byte0 * 256 + byte1 of the bytes read,
\* so [0x01, 0x2C] gives 0x012C.
C9_ReadRegisterSequence ==
    (call.op = "readRegister" /\ \A i \in 1..Len(callTxs) : callTxs[i].err = NoErr)
      => /\ Len(callTxs) = 2
         /\ call.err = NoErr
         /\ callTxs[1].w = << call.reg >> /\ callTxs[1].rlen = 0
         /\ callTxs[2].w = << >> /\ callTxs[2].rlen = 2
         /\ Len(callTxs[2].data) = 2
         /\ call.val = callTxs[2].data[1] * 256 + callTxs[2].data[2]
         /\ (callTxs[2].data = << 1, 44 >> => call.val = 300)

C9_Witness ==
    /\ call.op = "readRegister"
    /\ call.reg = 255
    /\ Len(callTxs) = 2
    /\ callTxs[2].data = << 1, 44 >>
    /\ call.val = 300
    /\ call.err = NoErr

\* C10: writeRegister(r, v) issues exactly one transaction, whose payload is
\* [r, v div 256, v mod 256] with no read buffer, and returns that
\* transaction's error; (0x00, 0x4127) gives [0x00, 0x41, 0x27].
C10_WriteRegisterPayload ==
    call.op = "writeRegister"
      => /\ Len(callTxs) = 1
         /\ callTxs[1].w = << call.reg, call.value \div 256, call.value % 256 >>
         /\ callTxs[1].rlen = 0
         /\ call.err = callTxs[1].err
         /\ ((call.reg = 0 /\ call.value = 16679) => callTxs[1].w = << 0, 65, 39 >>)

C10_Witness ==
    /\ call.op = "writeRegister"
    /\ call.reg = 0
    /\ call.value = 16679
    /\ callTxs = << [ addr |-> 64, w |-> << 0, 65, 39 >>, rlen |-> 0,
                      err |-> BusIOError(1), data |-> << >> ] >>
    /\ call.err = BusIOError(1)

\* C11: for every raw 16-bit value v of the current register, ReadCurrent
\* gives v mA when v < 0x8000 and (v - 65536) mA when v >= 0x8000; 0xFFFF
\* gives -1 mA, 0x8000 gives -32768 mA and 0x7FFF gives 32767 mA.
C11_CurrentTwosComplement ==
    (call.op = "ReadCurrent" /\ call.err = NoErr)
      => LET v == Raw16(callTxs[2])
         IN  /\ callTxs[1].w = << 4 >>
             /\ v < 32768 => call.val = v
             /\ v >= 32768 => call.val = v - 65536
             /\ v = 65535 => call.val = -1
             /\ v = 32768 => call.val = -32768
             /\ v = 32767 => call.val = 32767

C11_Witness ==
    /\ call.op = "ReadCurrent"
    /\ call.err = NoErr
    /\ callTxs[2].data = << 255, 255 >>
    /\ call.val = -1

\* C12: the bus-voltage and power registers are scaled as unsigned values:
\* for every raw v in 0..65535 ReadBusVoltage gives v * 1.25 mV and ReadPower
\* gives v * 25 mW, so neither is ever negative.
C12_UnsignedScaling ==
    /\ (call.op = "ReadBusVoltage" /\ call.err = NoErr)
         => /\ callTxs[1].w = << 2 >>
            /\ call.val = Raw16(callTxs[2]) * 125
            /\ call.val >= 0
    /\ (call.op = "ReadPower" /\ call.err = NoErr)
         => /\ callTxs[1].w = << 3 >>
            /\ call.val = Raw16(callTxs[2]) * 25
            /\ call.val >= 0

C12_Witness ==
    /\ call.op = "ReadPower"
    /\ call.err = NoErr
    /\ callTxs[2].data = << 128, 0 >>
    /\ call.val = 819200

\* C13: in normal operation run has no terminal state: when the
\* configuration and the write stream are there and the fetch of
\* updates-per-second succeeded with a value > 0, run has not returned.
C13_NoReturnInNormalOperation ==
    pc = "returned"
      => (cfgNil \/ streamNil \/ fetchErr # NoErr \/ updateFrequency <= 0)

\* C14: the steps of the loop follow the order config fetch, sleep,
\* ReadSensorData, report, and after the report of a sample (successful or
\* failed) the loop is back at the config fetch of the next tick (stated for
\* main.go's run with a constructed driver and a successful fetch).
StepAfter(p) ==
    CASE p = "fetch"  -> "sleep"
      [] p = "sleep"  -> "sample"
      [] p = "sample" -> "report"
      [] p = "report" -> "fetch"

C14_StrictAlternation ==
    [][ ( /\ variant = "main" /\ ina226 = "dev"
          /\ pc \in LoopPcs /\ pc' # pc
          /\ pc = "fetch" => fetchErr' = NoErr
          /\ pc # "fetch" => updateFrequency > 0 )
          => pc' = StepAfter(pc) ]_vars

\* C15: ReadSensorData reads bus voltage (0x02), current (0x04), power (0x03)
\* in that order: its transactions are a prefix of write [0x02], read 2,
\* write [0x04], read 2, write [0x03], read 2; all six when the call
\* succeeds, and none after the first one that failed.
RegOrder == << 2, 4, 3 >>

C15_ReadOrder ==
    Sampled =>
      LET n == Len(callTxs)
      IN  /\ n \in 1..6
          /\ \A i \in 1..n :
                /\ i % 2 = 1 => (callTxs[i].w = << RegOrder[(i + 1) \div 2] >>
                                 /\ callTxs[i].rlen = 0)
                /\ i % 2 = 0 => (callTxs[i].w = << >> /\ callTxs[i].rlen = 2)
                /\ i < n => callTxs[i].err = NoErr
          /\ n < 6 => callTxs[n].err # NoErr
          /\ err = NoErr => (n = 6 /\ callTxs[6].err = NoErr)
          /\ SubSeq(txLog, Len(txLog) - n + 1, Len(txLog)) = callTxs

C15_Witness ==
    /\ pc = "report"
    /\ err = NoErr
    /\ Len(callTxs) = 6
    /\ callTxs[1].w = << 2 >> /\ callTxs[3].w = << 4 >> /\ callTxs[5].w = << 3 >>
    /\ callTxs[6].rlen = 2

\* C16: the first two bus transactions of a run are the write
\* [0x00, 0x41, 0x27] and then the write [0x05, 0x0A, 0x00]; when the first
\* fails the second is not issued and NewINA226 gives no driver and an
\* error; every register read comes after both writes succeeded, and no
\* register write is issued again while polling.
C16_InitOnceBeforeReads ==
    LET n == Len(txLog)
    IN  /\ n >= 1 => (txLog[1].w = << 0, 65, 39 >> /\ txLog[1].rlen = 0)
        /\ n >= 2 => ( /\ txLog[1].err = NoErr
                       /\ txLog[2].w = << 5, 10, 0 >> /\ txLog[2].rlen = 0 )
        /\ (n >= 1 /\ txLog[1].err # NoErr)
              => (n = 1 /\ ina226 = "nil" /\ err.msg = "failed to initialize INA226")
        /\ n >= 3 => (txLog[2].err = NoErr /\ ina226 = "dev")
        /\ \A i \in 1..n : (txLog[i].rlen > 0 \/ Len(txLog[i].w) < 3) <=> i > 2

C16_Witness ==
    /\ Len(txLog) = 8
    /\ txLog[1].w = << 0, 65, 39 >>
    /\ txLog[2].w = << 5, 10, 0 >>
    /\ txLog[3].w = << 2 >>
    /\ txLog[8].rlen = 2
    /\ ina226 = "dev"

\* C17: for every updates-per-second value f > 0, whole or not, below 1 or
\* not, the sleep computed from f lasts 1/f seconds (to the millisecond) and
\* the computation does not fail.
C17_SleepIsReciprocal ==
    (pc # "harness" /\ updateFrequency > 0)
      => /\ pc = "called"
         /\ sleep.conv = "exact"
         /\ sleep.freq = updateFrequency
         /\ sleep.ms * updateFrequency <= 10000
         /\ (sleep.ms + 1) * updateFrequency > 10000

\* C18: in readRegister, when the address write fails the 2-byte read is not
\* issued: the call has made one transaction and gives 0 with that error;
\* when the address write succeeds and the read fails, the call gives 0
\* with the read's error.
C18_ReadRegisterFailure ==
    call.op = "readRegister"
      => /\ Len(callTxs) \in 1..2
         /\ callTxs[1].err # NoErr
              => (Len(callTxs) = 1 /\ call.val = 0 /\ call.err = callTxs[1].err)
         /\ callTxs[1].err = NoErr => Len(callTxs) = 2
         /\ (Len(callTxs) = 2 /\ callTxs[2].err # NoErr)
              => (call.val = 0 /\ call.err = callTxs[2].err)

C18_Witness ==
    /\ call.op = "readRegister"
    /\ Len(callTxs) = 1
    /\ callTxs[1].w = << 2 >>
    /\ call.err = BusIOError(1)
    /\ call.val = 0

\* C19: when opening the I2C bus failed, run does not use the missing
\* handle: no driver is constructed, no transaction is issued, the loop is
\* not entered, and Close is not called on the absent handle.
C19_NoUseOfMissingBus ==
    bus = "nil"
      => /\ ina226 = "unset"
         /\ txLog = << >>
         /\ pc \notin LoopPcs \cup { "construct" }
         /\ panicAt # "defer"

====
